---- MODULE Spec2Model ----
(***************************************************************************)
(* Reward-rate accumulator (class RewardHistory, singleton rewardHistory)  *)
(* of the MYST balance dashboard, together with the dashboard poll that    *)
(* drives it (getTotalStakingInfo and App.fetchData).                      *)
(*                                                                         *)
(* Amounts are BigNumber values in base units ("wei").  The model keeps    *)
(* the arithmetic of the source but uses Decimals fractional digits per    *)
(* token instead of 18, so that values fit TLC's integers.  A decimal      *)
(* string such as '0.0001' is the record [whole, frac] of its integer      *)
(* part and its fractional part counted in base units.                     *)
(* Date.now() is the variable now, in milliseconds; one handler reads one  *)
(* value of the clock.                                                     *)
(***************************************************************************)
EXTENDS Integers, Sequences, FiniteSets, TLC

(* ----------------------------- bounds ---------------------------------- *)

\* fractional digits of one token in the model (ethers uses 18)
Decimals == 5

\* the clock stops advancing here (milliseconds)
MaxNow == 360000

\* the clock advances by one of these steps (milliseconds)
TickSteps == {60000, 300000}

\* longest history the calls may build
MaxHistory == 6

\* setInitialAmount() calls per session (since construction or reset())
MaxSetInitial == 1

\* largest reward of one staked token on the chain, in multiples of 0.0001
MaxTokenReward == 1

\* fetchData() polls in flight at once
MaxInFlight == 2

\* 60-second refresh countdowns the dashboard runs through
MaxCountdowns == 1

\* the one-second timer callbacks of the first App that are followed
MaxTimerTicks == 62

\* the seconds within which a safeCall or a withRetry may start
MaxRetrySeconds == 8

\* the transfers that reach the chain for one query
MaxTransfers == 2

\* the data points a RewardTracker is given
MaxTrackerPoints == 3

\* the getRewardDifference() calls that are followed
MaxDifferenceCalls == 4

\* the largest balanceOf() of the wallet in the ERC-721 contract
MaxTokenCount == 3

\* the checkStaking() runs of the console script that are followed
MaxConsoleRuns == 4

\* the clock of the sub-minute runs stops advancing here (milliseconds)
MaxFineNow == 90000

\* the clock of the sub-minute runs advances by one of these steps
FineSteps == {20000, 30000}

(* --------------------------- conversions ------------------------------- *)

RECURSIVE Pow10(_)
Pow10(n) == IF n = 0 THEN 1 ELSE 10 * Pow10(n - 1)

WeiPerEther == Pow10(Decimals)

RECURSIVE GCD(_, _)
GCD(a, b) == IF b = 0 THEN a ELSE GCD(b, a % b)

\* BigNumber a.mul(m).div(d) for a, m >= 0 and d > 0, without the
\* intermediate product
MulDiv(a, m, d) == LET g == GCD(m, d) IN (a * (m \div g)) \div (d \div g)

Max(a, b) == IF a >= b THEN a ELSE b

\* utils.parseEther: decimal string -> base units
parseEther(d) == d.whole * WeiPerEther + d.frac

\* utils.formatEther: base units -> decimal string
formatEther(v) == [whole |-> v \div WeiPerEther, frac |-> v % WeiPerEther]

\* the number a decimal string denotes, counted in base units
Units(d) == d.whole * Pow10(Decimals) + d.frac

\* the decimal string '0.0001'
SampleAmount == [whole |-> 0, frac |-> WeiPerEther \div 10000]

\* the amounts (decimal strings, all matching /^\d+(\.\d+)?$/) handed to
\* update() and setInitialAmount()
AmountInputs ==
    {[whole |-> 0, frac |-> k * SampleAmount.frac] : k \in {0, 1, 2}}

\* the same amounts as base-unit integers (digit-only strings, which also
\* match /^\d+(\.\d+)?$/): '0', and the base units of 0.0001 and 0.0002
BaseUnitInputs ==
    {[whole |-> k * parseEther(SampleAmount), frac |-> 0] : k \in {0, 1, 2}}

(* ------------------------- class RewardHistory -------------------------- *)

windowMs == 300000

MsPerMinute == 60000

minutesInWindow == 5

NoAmount == << >>

\* field initialisers of the class, constructed at time t
NewRewardHistory(t) ==
    [history |-> << >>,
     lastAmount |-> 0,
     initialAmount |-> NoAmount,
     startTime |-> t,
     initialized |-> FALSE]

toWeiString(amount) == parseEther(amount)

RewardPoint(t, a) == [timestamp |-> t, amount |-> a]

SelectPoints(h, cutoff) == SelectSeq(h, LAMBDA p : p.timestamp >= cutoff)

\* cleanup() that filters nothing
cleanup_keepsAll(rh, t) == rh

cleanup(rh, t) ==
    [rh EXCEPT !.history = SelectPoints(@, t - windowMs)]

\* the sample points pushed newest first, i = 0 up to 4
SamplePoints_newestFirst(t) ==
    [k \in 1..5 |-> RewardPoint(t - (k - 1) * MsPerMinute,
                                toWeiString(SampleAmount))]

\* the five sample points pushed by initialize(), i = 4 down to 0
SamplePoints(t) ==
    [k \in 1..5 |-> RewardPoint(t - (5 - k) * MsPerMinute,
                                toWeiString(SampleAmount))]

\* initialize() guarded by the baseline instead of the initialized flag
initialize_whenNoBaseline(rh, t) ==
    IF rh.initialAmount # NoAmount THEN rh
    ELSE [rh EXCEPT !.history = @ \o SamplePoints(t),
                    !.initialized = TRUE]

\* initialize() without this.initialized = true
initialize_keepsFlag(rh, t) ==
    IF rh.initialized THEN rh
    ELSE [rh EXCEPT !.history = @ \o SamplePoints(t)]

\* initialize() that also restarts the session clock
initialize_restartsSession(rh, t) ==
    IF rh.initialized THEN rh
    ELSE [rh EXCEPT !.history = @ \o SamplePoints(t),
                    !.initialized = TRUE,
                    !.startTime = t]

initialize(rh, t) ==
    IF rh.initialized THEN rh
    ELSE [rh EXCEPT !.history = @ \o SamplePoints(t),
                    !.initialized = TRUE]

\* the first-update branch pushing the cumulative amount as its first point
firstUpdate_recordsAmount(rh, currentWei, t) ==
    [rh EXCEPT !.initialAmount = <<currentWei>>,
               !.lastAmount = currentWei,
               !.startTime = t,
               !.initialized = TRUE,
               !.history = Append(@, RewardPoint(t, currentWei))]

firstUpdate(rh, currentWei, t) ==
    [rh EXCEPT !.initialAmount = <<currentWei>>,
               !.lastAmount = currentWei,
               !.startTime = t,
               !.initialized = TRUE,
               !.history = Append(@, RewardPoint(t, 0))]

\* the claim branch without this.history = []
claimReset_keepsHistory(rh, currentWei, t) ==
    [rh EXCEPT !.history = Append(@, RewardPoint(t, 0)),
               !.lastAmount = currentWei,
               !.initialAmount = <<currentWei>>,
               !.startTime = t]

\* the claim branch without this.initialAmount = currentWeiStr
claimReset_keepsBaseline(rh, currentWei, t) ==
    [rh EXCEPT !.history = <<RewardPoint(t, 0)>>,
               !.lastAmount = currentWei,
               !.startTime = t]

claimReset(rh, currentWei, t) ==
    [rh EXCEPT !.history = <<RewardPoint(t, 0)>>,
               !.lastAmount = currentWei,
               !.initialAmount = <<currentWei>>,
               !.startTime = t]

\* the difference branch without this.lastAmount = currentWeiStr
addDifference_keepsLastAmount(rh, currentWei, t) ==
    LET difference == currentWei - rh.lastAmount
        newPoint == RewardPoint(t, difference)
        n == Len(rh.history)
    IN  IF difference > 0
        THEN [rh EXCEPT !.history = Append(@, newPoint)]
        ELSE IF n > 0
             THEN [rh EXCEPT !.history[n].timestamp = t]
             ELSE [rh EXCEPT !.history = Append(@, newPoint)]

\* the difference branch recording the cumulative amount as the delta
addDifference_recordsTotal(rh, currentWei, t) ==
    LET difference == currentWei - rh.lastAmount
        newPoint == RewardPoint(t, currentWei)
        n == Len(rh.history)
    IN  IF difference > 0
        THEN [rh EXCEPT !.history = Append(@, newPoint),
                        !.lastAmount = currentWei]
        ELSE IF n > 0
             THEN [rh EXCEPT !.history[n].timestamp = t]
             ELSE [rh EXCEPT !.history = Append(@, newPoint)]

\* the difference branch pushing newPoint also for a zero difference
addDifference_appendsZero(rh, currentWei, t) ==
    LET difference == currentWei - rh.lastAmount
        newPoint == RewardPoint(t, difference)
    IN  IF difference > 0
        THEN [rh EXCEPT !.history = Append(@, newPoint),
                        !.lastAmount = currentWei]
        ELSE [rh EXCEPT !.history = Append(@, newPoint)]

\* the difference branch restarting the session clock on a zero difference
addDifference_restartsOnZero(rh, currentWei, t) ==
    LET difference == currentWei - rh.lastAmount
        newPoint == RewardPoint(t, difference)
        n == Len(rh.history)
    IN  IF difference > 0
        THEN [rh EXCEPT !.history = Append(@, newPoint),
                        !.lastAmount = currentWei]
        ELSE IF n > 0
             THEN [rh EXCEPT !.history[n].timestamp = t, !.startTime = t]
             ELSE [rh EXCEPT !.history = Append(@, newPoint)]

addDifference(rh, currentWei, t) ==
    LET difference == currentWei - rh.lastAmount
        newPoint == RewardPoint(t, difference)
        n == Len(rh.history)
    IN  IF difference > 0
        THEN [rh EXCEPT !.history = Append(@, newPoint),
                        !.lastAmount = currentWei]
        ELSE IF n > 0
             THEN [rh EXCEPT !.history[n].timestamp = t]
             ELSE [rh EXCEPT !.history = Append(@, newPoint)]

update(rh, currentAmount, t) ==
    LET currentWei == toWeiString(currentAmount)
    IN  IF ~rh.initialized THEN firstUpdate(rh, currentWei, t)
        ELSE IF currentWei < rh.lastAmount THEN claimReset(rh, currentWei, t)
        ELSE cleanup(addDifference(rh, currentWei, t), t)

RECURSIVE SumAmounts(_)
SumAmounts(h) ==
    IF h = << >> THEN 0 ELSE Head(h).amount + SumAmounts(Tail(h))

sessionTotalOf(rh) ==
    IF rh.initialAmount # NoAmount
    THEN Max(rh.lastAmount - rh.initialAmount[1], 0)
    ELSE 0

\* the accumulator after getStats(): cleanup() then initialize()
getStatsState(rh, t) == initialize(cleanup(rh, t), t)

\* getStats() without Math.max(1, ...)
sessionDurationMinutesOf_noFloor(sessionDurationMs) == sessionDurationMs

\* sessionDurationMinutes of getStats(), in 1/60000 minute
sessionDurationMinutesOf(sessionDurationMs) ==
    Max(MsPerMinute, sessionDurationMs)

\* getStats() dividing the window total by the minutes of the session
getStatsResult_sessionDivisor(rh, t) ==
    LET s == getStatsState(rh, t)
        fiveMinutesAgo == t - windowMs
        sessionDurationMs == t - s.startTime
        recentPoints == SelectPoints(s.history, fiveMinutesAgo)
        totalRewards == SumAmounts(recentPoints)
        sessionTotal == sessionTotalOf(s)
        perMinute == totalRewards \div Max(1, sessionDurationMs \div MsPerMinute)
        sessionPerMinute ==
            IF sessionDurationMs > 0
            THEN MulDiv(sessionTotal, 60000, sessionDurationMs)
            ELSE 0
        perHour == perMinute * 60
        perDay == perHour * 24
    IN  [sessionTotal |-> formatEther(sessionTotal),
         sessionDurationMinutes |->
             sessionDurationMinutesOf(sessionDurationMs),
         sessionPerMinute |-> formatEther(sessionPerMinute),
         currentRate |-> [perMinute |-> formatEther(perMinute),
                          perHour |-> formatEther(perHour),
                          perDay |-> formatEther(perDay)],
         totalRewards |-> totalRewards]

\* the value returned by getStats().  Amount fields are the decimal strings
\* given to parseFloat; sessionDurationMinutes is kept in 1/60000 minute;
\* totalRewards is the local window total, in base units.
getStatsResult(rh, t) ==
    LET s == getStatsState(rh, t)
        fiveMinutesAgo == t - windowMs
        sessionDurationMs == t - s.startTime
        recentPoints == SelectPoints(s.history, fiveMinutesAgo)
        totalRewards == SumAmounts(recentPoints)
        sessionTotal == sessionTotalOf(s)
        perMinute == totalRewards \div minutesInWindow
        sessionPerMinute ==
            IF sessionDurationMs > 0
            THEN MulDiv(sessionTotal, 60000, sessionDurationMs)
            ELSE 0
        perHour == perMinute * 60
        perDay == perHour * 24
    IN  [sessionTotal |-> formatEther(sessionTotal),
         sessionDurationMinutes |->
             sessionDurationMinutesOf(sessionDurationMs),
         sessionPerMinute |-> formatEther(sessionPerMinute),
         currentRate |-> [perMinute |-> formatEther(perMinute),
                          perHour |-> formatEther(perHour),
                          perDay |-> formatEther(perDay)],
         totalRewards |-> totalRewards]

\* reset() without this.initialized = false
reset_keepsInitialized(rh, t) ==
    [rh EXCEPT !.history = << >>,
               !.lastAmount = 0,
               !.initialAmount = NoAmount,
               !.startTime = t]

\* reset() without this.history = []
reset_keepsHistory(rh, t) ==
    [rh EXCEPT !.lastAmount = 0,
               !.initialAmount = NoAmount,
               !.startTime = t,
               !.initialized = FALSE]

reset(rh, t) ==
    [rh EXCEPT !.history = << >>,
               !.lastAmount = 0,
               !.initialAmount = NoAmount,
               !.startTime = t,
               !.initialized = FALSE]

\* setInitialAmount() that also records a first sample, as update() does
setInitialAmount_recordsPoint(rh, amount, t) ==
    LET weiAmount == toWeiString(amount)
    IN  [rh EXCEPT !.initialAmount = <<weiAmount>>,
                   !.lastAmount = weiAmount,
                   !.startTime = t,
                   !.initialized = TRUE,
                   !.history = Append(@, RewardPoint(t, 0))]

setInitialAmount(rh, amount, t) ==
    LET weiAmount == toWeiString(amount)
    IN  [rh EXCEPT !.initialAmount = <<weiAmount>>,
                   !.lastAmount = weiAmount,
                   !.startTime = t,
                   !.initialized = TRUE]

ZeroDecimal == [whole |-> 0, frac |-> 0]

\* the rewardStats a component holds before any getStats() result
ZeroStats ==
    [sessionTotal |-> ZeroDecimal,
     sessionDurationMinutes |-> 0,
     sessionPerMinute |-> ZeroDecimal,
     currentRate |-> [perMinute |-> ZeroDecimal,
                      perHour |-> ZeroDecimal,
                      perDay |-> ZeroDecimal],
     totalRewards |-> 0]


(* ------------------- getTotalStakingInfo and App.fetchData --------------- *)

\* the token ids getTokensOfOwner() returns for the wallet
TokenIds == {1, 2}

RECURSIVE SumOver(_, _)
SumOver(S, f) ==
    IF S = {} THEN 0
    ELSE LET x == CHOOSE y \in S : TRUE IN f[x] + SumOver(S \ {x}, f)

\* safeCall('getStakingReward', tokenId): 0 once every attempt has failed
safeCall(rewards, failing, tokenId) ==
    IF tokenId \in failing THEN 0 ELSE rewards[tokenId]

\* rewardSum after the per-token reads
rewardSumOf(rewards, failing) ==
    SumOver(TokenIds, [tk \in TokenIds |-> safeCall(rewards, failing, tk)])

\* earnedRewards of the result of getTotalStakingInfo
earnedRewardsOf(reachable, rewardSum) ==
    IF reachable THEN formatEther(rewardSum) ELSE ZeroDecimal

\* the accumulator before the getStats() call of getTotalStakingInfo
stakingUpdate(rh, rewardSum, t) ==
    IF rewardSum > 0 THEN update(rh, formatEther(rewardSum), t) ELSE rh

\* the accumulator when getTotalStakingInfo returns
stakingState(rh, reachable, rewardSum, t) ==
    IF reachable THEN getStatsState(stakingUpdate(rh, rewardSum, t), t) ELSE rh

\* rewardStats of the result of getTotalStakingInfo
stakingStats(rh, reachable, rewardSum, t) ==
    IF reachable THEN getStatsResult(stakingUpdate(rh, rewardSum, t), t)
    ELSE ZeroStats

\* the accumulator before the last getStats() call of fetchData, whose
\* closure holds initialEarned and whose staking result holds earnedRewards
fetchDataCalls(rh, initialEarned, earnedRewards, t) ==
    IF initialEarned = NoAmount
    THEN setInitialAmount(rh, earnedRewards, t)
    ELSE IF Units(earnedRewards) > Units(initialEarned[1])
         THEN update(rh, earnedRewards, t)
         ELSE rh

\* rewardStats.sessionTotal handed to setStakingData, in base units
fetchDataSessionTotal(initialEarned, earnedRewards, resultStats) ==
    IF initialEarned = NoAmount
    THEN Units(resultStats.sessionTotal)
    ELSE Units(earnedRewards) - Units(initialEarned[1])

NewPoll(initialEarned) ==
    [stage |-> "fetching", initialEarned |-> initialEarned,
     reachable |-> TRUE, rewardSum |-> 0, failed |-> FALSE]

RemoveAt(q, i) == SubSeq(q, 1, i - 1) \o SubSeq(q, i + 1, Len(q))

(* ------------------------- the chain fetchers ---------------------------- *)

\* the wallet address of the dashboard, and a string that is no address
Addresses == {"0xWallet", "no address"}

\* ethers.utils.isAddress
isAddress(a) == a = "0xWallet"

\* how a promise settles
Fulfilled(v) == [settled |-> "fulfilled", value |-> v]

Rejected == [settled |-> "rejected", value |-> << >>]

\* a try block without its catch block
tryCatch_rethrows(threw, value, default) ==
    IF threw THEN Rejected ELSE Fulfilled(value)

\* an async function whose whole body is try { ... return value }
\* catch { return default }
tryCatch(threw, value, default) ==
    IF threw THEN Fulfilled(default) ELSE Fulfilled(value)

\* the outcomes of one JSON-RPC read: a result, an exception, or a response
\* without result
ReadOutcomes == {"ok", "throws", "noResult"}

\* the wallet balances on the chain, in base units
Balances == {0, 25 * Pow10(Decimals - 1)}

\* the balance getMystBalance() returns on error ('0.00'), as a number
DefaultBalance == ZeroDecimal

\* getMystBalance: a failed decimals read falls back to 18 decimals; a
\* failed balance read throws to the outer catch; a response without result
\* leaves balance = 0n
getMystBalance(decimalsRead, balanceRead, balance) ==
    tryCatch(balanceRead = "throws",
             IF balanceRead = "ok" THEN formatEther(balance) ELSE ZeroDecimal,
             DefaultBalance)

\* the token ids tokenOfOwnerByIndex() returns for the wallet, by index
OwnedTokens == <<1, 2>>

\* getTokensOfOwner: the ids whose read succeeded, in index order
getTokensOfOwner(ownerAddress, balanceOfRead, failingIndices) ==
    tryCatch(~isAddress(ownerAddress) \/ balanceOfRead = "throws",
             SelectSeq(OwnedTokens, LAMBDA tk : tk \notin failingIndices),
             << >>)

\* data of the result of getTotalStakingInfo when it returns default values
DefaultStakingInfo == [earnedRewards |-> ZeroDecimal, rewardStats |-> ZeroStats]

\* getTotalStakingInfo, as a promise
getTotalStakingInfo(walletAddress, reachable, rewardSum, rh, t) ==
    tryCatch(~isAddress(walletAddress),
             [earnedRewards |-> earnedRewardsOf(reachable, rewardSum),
              rewardStats |-> stakingStats(rh, reachable, rewardSum, t)],
             DefaultStakingInfo)

(* ------------------ update() with out-of-contract arguments -------------- *)

\* what a field holds when the string stored in it is no number:
\* BigNumber.from() throws on it
NotNumeric == 0 - Pow10(9)

\* the strings handed to update(): '0' and '0.0001' (form "decimal"); a
\* decimal with more fractional digits than a token has, on which
\* utils.parseEther throws ("tooFine"); '-1' ("negative"); 'abc' ("text")
RawInputs ==
    {[form |-> "decimal", whole |-> 0, frac |-> k * SampleAmount.frac] :
        k \in {0, 1}}
    \cup {[form |-> "tooFine", whole |-> 0, frac |-> 0],
          [form |-> "negative", whole |-> 0 - 1, frac |-> 0],
          [form |-> "text", whole |-> 0, frac |-> 0]}

\* toWeiString on any string: parseEther for one matching /^\d+(\.\d+)?$/,
\* '0' when parseEther throws, the string itself otherwise
toWeiStringAny(raw) ==
    CASE raw.form = "decimal" -> parseEther(raw)
      [] raw.form = "tooFine" -> 0
      [] raw.form = "negative" -> raw.whole
      [] raw.form = "text" -> NotNumeric

\* update() on any string; BigNumber.from throwing on currentWeiStr or on
\* this.lastAmount ends the call in its catch block
updateAny(rh, raw, t) ==
    LET currentWei == toWeiStringAny(raw)
    IN  IF ~rh.initialized THEN firstUpdate(rh, currentWei, t)
        ELSE IF currentWei = NotNumeric \/ rh.lastAmount = NotNumeric THEN rh
        ELSE IF currentWei < rh.lastAmount THEN claimReset(rh, currentWei, t)
        ELSE cleanup(addDifference(rh, currentWei, t), t)

\* getStats() throws, after cleanup() and initialize(), when BigNumber.from
\* throws on lastAmount or initialAmount
getStatsThrows(rh) ==
    /\ rh.initialAmount # NoAmount
    /\ rh.lastAmount = NotNumeric \/ rh.initialAmount[1] = NotNumeric

(* -------------------- the asset-transfer cache -------------------------- *)

\* JSON.stringify(params) of the two callers: getLatestTransactionFromAddress
\* and getLastStakingTransaction
CacheKeys == {"latestFromAddress", "stakesOfWallet"}

NoResponse == << >>

\* getAssetTransfersWithRetry that stores an empty response when both the
\* SDK call and the RPC fallback fail
getAssetTransfersWithRetry_cachesFailure(cache, key, sdkOk, rpcOk, latest) ==
    IF cache[key] # NoResponse
    THEN [cache |-> cache, response |-> cache[key], requests |-> 0,
          threw |-> FALSE]
    ELSE IF sdkOk \/ rpcOk
    THEN [cache |-> [cache EXCEPT ![key] = <<latest>>],
          response |-> <<latest>>,
          requests |-> IF sdkOk THEN 1 ELSE 2, threw |-> FALSE]
    ELSE [cache |-> [cache EXCEPT ![key] = <<0>>],
          response |-> NoResponse, requests |-> 2, threw |-> TRUE]

\* a response is the number of the latest matching transfer, 0 for an empty
\* list; requests counts the withRetry call and the rpcCall fallback
getAssetTransfersWithRetry(cache, key, sdkOk, rpcOk, latest) ==
    IF cache[key] # NoResponse
    THEN [cache |-> cache, response |-> cache[key], requests |-> 0,
          threw |-> FALSE]
    ELSE IF sdkOk \/ rpcOk
    THEN [cache |-> [cache EXCEPT ![key] = <<latest>>],
          response |-> <<latest>>,
          requests |-> IF sdkOk THEN 1 ELSE 2, threw |-> FALSE]
    ELSE [cache |-> cache, response |-> NoResponse, requests |-> 2,
          threw |-> TRUE]

\* tx is the transfer handed to setLatestTx, 0 for null; failed: the catch
\* block returned the null
getLatestTransactionFromAddress(cache, sdkOk, rpcOk, blockOk, latest) ==
    LET r == getAssetTransfersWithRetry(cache, "latestFromAddress",
                                        sdkOk, rpcOk, latest)
    IN  IF r.threw
        THEN [cache |-> r.cache, tx |-> 0, requests |-> r.requests,
              failed |-> TRUE]
        ELSE IF r.response[1] = 0
        THEN [cache |-> r.cache, tx |-> 0, requests |-> r.requests,
              failed |-> FALSE]
        ELSE IF blockOk
        THEN [cache |-> r.cache, tx |-> r.response[1],
              requests |-> r.requests, failed |-> FALSE]
        ELSE [cache |-> r.cache, tx |-> 0, requests |-> r.requests,
              failed |-> TRUE]

(* ------------------------- class RewardTracker --------------------------- *)

maxAgeMs == 60000

\* field initialisers of the class
NewRewardTracker == [rewardHistory |-> << >>, lastProcessedReward |-> 0]

\* the rewards, in base units, handed to addReward() and
\* getRewardDifference()
TrackerRewards == {k * Units(SampleAmount) : k \in 0..2}

\* findIndex(point => point.timestamp >= cutoff), counted from 0; -1 when
\* no point qualifies
findIndex(h, cutoff) ==
    IF \E i \in DOMAIN h : h[i].timestamp >= cutoff
    THEN (CHOOSE i \in DOMAIN h :
             /\ h[i].timestamp >= cutoff
             /\ \A j \in 1..(i - 1) : h[j].timestamp < cutoff) - 1
    ELSE 0 - 1

cleanupOldData(rt, t) ==
    LET firstValidIndex == findIndex(rt.rewardHistory, t - maxAgeMs)
    IN  IF firstValidIndex > 0
        THEN [rt EXCEPT !.rewardHistory =
                 SubSeq(@, firstValidIndex + 1, Len(@))]
        ELSE rt

addReward(rt, reward, t) ==
    cleanupOldData(
        [rt EXCEPT !.rewardHistory =
            Append(@, [timestamp |-> t, reward |-> reward])], t)

RECURSIVE SumRewards(_)
SumRewards(h) ==
    IF h = << >> THEN 0 ELSE Head(h).reward + SumRewards(Tail(h))

\* the value returned by getRewardsLastMinute(); total and perMinute in
\* base units, before formatEther
getRewardsLastMinute(rt, t) ==
    LET h == cleanupOldData(rt, t).rewardHistory
        totalWei == SumRewards(h)
        timeSpanMs == h[Len(h)].timestamp - h[1].timestamp
    IN  IF h = << >>
        THEN [total |-> 0, perMinute |-> 0, dataPoints |-> << >>]
        ELSE [total |-> totalWei,
              perMinute |->
                  IF timeSpanMs > 0
                  THEN (totalWei * ((60 * 1000 * 1000) \div timeSpanMs))
                           \div 1000
                  ELSE totalWei,
              dataPoints |-> h]

\* getRewardDifference(): the difference returned and the tracker after it
\* getRewardDifference() that keeps the stored reward when the counter fell
getRewardDifference_keepsOnFall(rt, currentReward) ==
    IF currentReward < rt.lastProcessedReward
    THEN [tracker |-> rt, difference |-> 0]
    ELSE [tracker |-> [rt EXCEPT !.lastProcessedReward = currentReward],
          difference |-> currentReward - rt.lastProcessedReward]

getRewardDifference(rt, currentReward) ==
    [tracker |-> [rt EXCEPT !.lastProcessedReward = currentReward],
     difference |-> IF currentReward < rt.lastProcessedReward
                    THEN 0
                    ELSE currentReward - rt.lastProcessedReward]

(* ------------------------------ state ----------------------------------- *)

VARIABLES
    now,            \* Date.now()
    rewardHistory,  \* the singleton RewardHistory
    stats,          \* the result of getStats(), while it is the latest direct call
    call,           \* the latest call by name and the latest amount passed; for
                    \* a poll its streak, for a fetcher its failure and result
    run,            \* the direct calls made since construction or reset()
    chain,          \* getStakingReward of each token, in base units
    app,            \* the dashboard: mounted, initialEarned, shown sessionTotal
    polls,          \* the fetchData() calls in flight
    responseCache,  \* the asset-transfer responses kept by staking.ts
    transfers,      \* per query, the number of matching transfers on chain
    rewardTracker   \* the singleton RewardTracker

vars ==
    <<now, rewardHistory, stats, call, run, chain, app, polls,
      responseCache, transfers, rewardTracker>>

\* the state outside the accumulator and the dashboard
ledger == <<responseCache, transfers, rewardTracker>>

accumulator == <<rewardHistory, stats, call, run>>

dashboard == <<chain, app, polls>>

\* first: the argument of the first update(); plain: only update() calls with
\* non-decreasing arguments, and getStats() calls after the first of them,
\* have been made; setInitial: the number of setInitialAmount() calls
NewRun == [first |-> NoAmount, plain |-> TRUE, setInitial |-> 0]

Init ==
    /\ now = 0
    /\ rewardHistory = NewRewardHistory(0)
    /\ stats = ZeroStats
    /\ call = [op |-> "new", arg |-> ZeroDecimal]
    /\ run = NewRun
    /\ chain = [tk \in TokenIds |-> 0]
    /\ app = [mounted |-> FALSE, initialEarned |-> NoAmount, sessionTotal |-> 0]
    /\ polls = << >>
    /\ responseCache = [k \in CacheKeys |-> NoResponse]
    /\ transfers = [k \in CacheKeys |-> 0]
    /\ rewardTracker = NewRewardTracker

Tick ==
    \E d \in TickSteps :
        /\ now + d <= MaxNow
        /\ now' = now + d
        /\ call' = [op |-> "tick", arg |-> call.arg]
        /\ stats' = ZeroStats
        /\ UNCHANGED <<ledger, rewardHistory, run, dashboard>>

Update ==
    \E a \in AmountInputs :
        /\ rewardHistory' = update(rewardHistory, a, now)
        /\ Len(rewardHistory'.history) <= MaxHistory
        /\ call' = [op |-> "update", arg |-> a]
        /\ run' = [run EXCEPT
                     !.first = IF @ = NoAmount THEN <<a>> ELSE @,
                     !.plain = @ /\ (run.first = NoAmount
                                      \/ Units(a) >= Units(call.arg))]
        /\ stats' = ZeroStats
        /\ UNCHANGED <<ledger, now, dashboard>>

GetStats ==
    /\ rewardHistory' = getStatsState(rewardHistory, now)
    /\ stats' = getStatsResult(rewardHistory, now)
    /\ call' = [op |-> "getStats", arg |-> call.arg]
    /\ run' = [run EXCEPT !.plain = @ /\ run.first # NoAmount]
    /\ UNCHANGED <<ledger, now, dashboard>>

Reset ==
    /\ rewardHistory' = reset(rewardHistory, now)
    /\ call' = [op |-> "reset", arg |-> call.arg]
    /\ run' = NewRun
    /\ stats' = ZeroStats
    /\ UNCHANGED <<ledger, now, dashboard>>

SetInitialAmount ==
    \E a \in AmountInputs :
        /\ run.setInitial < MaxSetInitial
        /\ rewardHistory' = setInitialAmount(rewardHistory, a, now)
        /\ call' = [op |-> "setInitialAmount", arg |-> a]
        /\ run' = [run EXCEPT !.setInitial = @ + 1, !.plain = FALSE]
        /\ stats' = ZeroStats
        /\ UNCHANGED <<ledger, now, dashboard>>

Next == Tick \/ Update \/ GetStats \/ Reset \/ SetInitialAmount

Spec == Init /\ [][Next]_vars

(* ------------------- update() called with base units -------------------- *)

\* update() called with the cumulative counter as a base-unit integer
UpdateBaseUnits ==
    \E a \in BaseUnitInputs :
        /\ rewardHistory' = update(rewardHistory, a, now)
        /\ Len(rewardHistory'.history) <= MaxHistory
        /\ call' = [op |-> "update", arg |-> a]
        /\ run' = [run EXCEPT
                     !.first = IF @ = NoAmount THEN <<a>> ELSE @,
                     !.plain = @ /\ (run.first = NoAmount
                                      \/ Units(a) >= Units(call.arg))]
        /\ stats' = ZeroStats
        /\ UNCHANGED <<ledger, now, dashboard>>

NextUnits == Tick \/ UpdateBaseUnits \/ GetStats \/ Reset

SpecUnits == Init /\ [][NextUnits]_vars

(* ------------------------ sub-minute clock ------------------------------- *)

\* time passes, less than a minute of it
Advance ==
    \E d \in FineSteps :
        /\ now + d <= MaxFineNow
        /\ now' = now + d
        /\ call' = [op |-> "tick", arg |-> call.arg]
        /\ stats' = ZeroStats
        /\ UNCHANGED <<ledger, rewardHistory, run, dashboard>>

NextFine == Advance \/ Update \/ GetStats \/ Reset \/ SetInitialAmount

SpecFine == Init /\ [][NextFine]_vars

(* --------------------- update() followed by getStats() ------------------- *)

\* time passes between two polls; the last result stays on display
Wait ==
    \E d \in TickSteps :
        /\ now + d <= MaxNow
        /\ now' = now + d
        /\ UNCHANGED <<ledger, accumulator, dashboard>>

\* the date of the latest update() call: every branch of update() leaves the
\* last history entry dated at the call
LastUpdateTime == rewardHistory.history[Len(rewardHistory.history)].timestamp

\* one poll: update(a), then getStats() in the same turn.  streak counts the
\* polls in a row that carried the same amount at strictly increasing times.
Poll ==
    \E a \in AmountInputs :
        LET updated == update(rewardHistory, a, now)
            repeats == /\ call.op = "poll"
                       /\ call.arg = a
                       /\ now > LastUpdateTime
        IN  /\ Len(updated.history) <= MaxHistory
            /\ rewardHistory' = getStatsState(updated, now)
            /\ stats' = getStatsResult(updated, now)
            /\ call' = [op |-> "poll", arg |-> a,
                        streak |-> IF repeats THEN call.streak + 1 ELSE 1]
            /\ run' = [run EXCEPT
                         !.first = IF @ = NoAmount THEN <<a>> ELSE @,
                         !.plain = @ /\ (run.first = NoAmount
                                          \/ Units(a) >= Units(call.arg))]
            /\ UNCHANGED <<ledger, now, dashboard>>

NextPolls == Wait \/ Poll \/ Reset

SpecPolls == Init /\ [][NextPolls]_vars

(* ---------------------- the dashboard and the chain ---------------------- *)

\* rewards accrue on a staked token
Accrue ==
    \E tk \in TokenIds :
        /\ chain[tk] < MaxTokenReward * Units(SampleAmount)
        /\ chain' = [chain EXCEPT ![tk] = @ + Units(SampleAmount)]
        /\ UNCHANGED <<ledger, now, accumulator, app, polls>>

\* the rewards of a staked token are claimed
Claim ==
    \E tk \in TokenIds :
        /\ chain[tk] > 0
        /\ chain' = [chain EXCEPT ![tk] = 0]
        /\ UNCHANGED <<ledger, now, accumulator, app, polls>>

\* the one-second refresh timer counts 60 seconds down
Countdown ==
    /\ now + 60 * 1000 <= MaxCountdowns * 60 * 1000
    /\ now' = now + 60 * 1000
    /\ UNCHANGED <<ledger, accumulator, dashboard>>

\* App mounts: the first effect resets the accumulator, the timer effect
\* starts the initial fetchData()
Mount ==
    /\ ~app.mounted
    /\ rewardHistory' = reset(rewardHistory, now)
    /\ app' = [app EXCEPT !.mounted = TRUE]
    /\ polls' = <<NewPoll(app.initialEarned)>>
    /\ call' = [op |-> "reset", arg |-> ZeroDecimal]
    /\ stats' = ZeroStats
    /\ UNCHANGED <<ledger, now, run, chain>>

\* the timer effect starts fetchData(): the countdown has reached 0, or the
\* effect has run again because fetchData changed
StartPoll ==
    /\ app.mounted
    /\ Len(polls) < MaxInFlight
    /\ polls' = Append(polls, NewPoll(app.initialEarned))
    /\ UNCHANGED <<ledger, now, accumulator, chain, app>>

\* getTotalStakingInfo reads the chain: the getReserve probe fails, or the
\* per-token reads run and those of at most one token, failing, return 0
ReadChain ==
    \E i \in DOMAIN polls :
        /\ polls[i].stage = "fetching"
        /\ \/ polls' = [polls EXCEPT ![i].stage = "read",
                                     ![i].reachable = FALSE,
                                     ![i].failed = TRUE]
           \/ \E failing \in {{}} \cup {{tk} : tk \in TokenIds} :
                polls' = [polls EXCEPT
                            ![i].stage = "read",
                            ![i].rewardSum = rewardSumOf(chain, failing),
                            ![i].failed = (failing # {})]
        /\ UNCHANGED <<ledger, now, accumulator, chain, app>>

\* getTotalStakingInfo resolves and fetchData runs to its end
CompletePoll ==
    \E i \in DOMAIN polls :
        LET p == polls[i]
            earned == earnedRewardsOf(p.reachable, p.rewardSum)
            afterStaking ==
                stakingState(rewardHistory, p.reachable, p.rewardSum, now)
            resultStats ==
                stakingStats(rewardHistory, p.reachable, p.rewardSum, now)
            beforeStats ==
                fetchDataCalls(afterStaking, p.initialEarned, earned, now)
        IN  /\ p.stage = "read"
            /\ rewardHistory' = getStatsState(beforeStats, now)
            /\ app' = [app EXCEPT
                         !.initialEarned =
                             IF p.initialEarned = NoAmount
                             THEN <<earned>> ELSE @,
                         !.sessionTotal =
                             fetchDataSessionTotal(p.initialEarned, earned,
                                                   resultStats)]
            /\ polls' = RemoveAt(polls, i)
            /\ UNCHANGED <<ledger, now, stats, call, run, chain>>

NextApp ==
    Countdown \/ Accrue \/ Claim \/ Mount \/ StartPoll \/ ReadChain \/ CompletePoll

SpecApp == Init /\ [][NextApp]_vars

(* ---------------------- calls of the chain fetchers ---------------------- *)

\* failure: "none", "part" (a read that the call replaces by a fallback of
\* its own: default decimals, 0 for one token, one id dropped) or "whole"
Fetched(op, failure, result) ==
    [op |-> op, arg |-> call.arg, failure |-> failure, result |-> result]

\* a read for an invalid address never returns a result
GetMystBalance ==
    \E w \in Addresses, decimalsRead \in {"ok", "throws"},
       balanceRead \in ReadOutcomes, balance \in Balances :
        /\ ~isAddress(w) => balanceRead # "ok"
        /\ call' = Fetched("getMystBalance",
                           IF balanceRead # "ok" THEN "whole"
                           ELSE IF decimalsRead # "ok" THEN "part"
                           ELSE "none",
                           getMystBalance(decimalsRead, balanceRead, balance))
        /\ UNCHANGED <<ledger, now, rewardHistory, stats, run, dashboard>>

GetTokensOfOwner ==
    \E w \in Addresses, balanceOfRead \in {"ok", "throws"},
       failingIndices \in SUBSET TokenIds :
        /\ call' = Fetched("getTokensOfOwner",
                           IF ~isAddress(w) \/ balanceOfRead # "ok"
                           THEN "whole"
                           ELSE IF failingIndices # {} THEN "part"
                           ELSE "none",
                           getTokensOfOwner(w, balanceOfRead, failingIndices))
        /\ UNCHANGED <<ledger, now, rewardHistory, stats, run, dashboard>>

\* the getReserve probe fails, or the per-token reads run and those of the
\* tokens in failing return 0
GetTotalStakingInfo ==
    \E w \in Addresses, reachable \in BOOLEAN, failing \in SUBSET TokenIds :
        LET rewardSum == rewardSumOf(chain, failing)
            result == getTotalStakingInfo(w, reachable, rewardSum,
                                          rewardHistory, now)
        IN  /\ ~reachable => failing = {}
            /\ rewardHistory' =
                 IF isAddress(w)
                 THEN stakingState(rewardHistory, reachable, rewardSum, now)
                 ELSE rewardHistory
            /\ Len(rewardHistory'.history) <= MaxHistory
            /\ stats' = result.value.rewardStats
            /\ call' = Fetched("getTotalStakingInfo",
                               IF ~isAddress(w) \/ ~reachable THEN "whole"
                               ELSE IF failing # {} THEN "part"
                               ELSE "none",
                               result)
            /\ UNCHANGED <<ledger, now, run, dashboard>>

NextFetch ==
    \/ Countdown \/ Accrue \/ Claim
    \/ GetMystBalance \/ GetTokensOfOwner \/ GetTotalStakingInfo

SpecFetch == Init /\ [][NextFetch]_vars

(* ----------------- calls with out-of-contract arguments ------------------ *)

\* update() returns normally whatever happens inside its try block
UpdateAny ==
    \E raw \in RawInputs :
        /\ rewardHistory' = updateAny(rewardHistory, raw, now)
        /\ Len(rewardHistory'.history) <= MaxHistory
        /\ call' = [op |-> "update", arg |-> raw, threw |-> FALSE]
        /\ stats' = ZeroStats
        /\ UNCHANGED <<ledger, now, run, dashboard>>

GetStatsAny ==
    /\ rewardHistory' = getStatsState(rewardHistory, now)
    /\ stats' = IF getStatsThrows(rewardHistory) THEN ZeroStats
                ELSE getStatsResult(rewardHistory, now)
    /\ call' = [op |-> "getStats", arg |-> call.arg,
                threw |-> getStatsThrows(rewardHistory)]
    /\ UNCHANGED <<ledger, now, run, dashboard>>

NextInputs == Tick \/ UpdateAny \/ GetStatsAny \/ Reset

SpecInputs == Init /\ [][NextInputs]_vars

(* ------------------ the refresh timer of the first App ------------------- *)

\* the App of part_000 mounts: the first effect resets the accumulator, the
\* timer effect sets the interval and starts the initial fetchData(), whose
\* closure holds initialEarned = null for good (its dependencies never change)
MountTimer ==
    /\ ~app.mounted
    /\ rewardHistory' = reset(rewardHistory, now)
    /\ app' = [mounted |-> TRUE, initialEarned |-> app.initialEarned,
               sessionTotal |-> app.sessionTotal, timeUntilRefresh |-> 60]
    /\ polls' = <<NewPoll(NoAmount)>>
    /\ call' = [op |-> "reset", arg |-> ZeroDecimal]
    /\ stats' = ZeroStats
    /\ UNCHANGED <<ledger, now, run, chain>>

\* fetchData() calls made by one run of refreshData: its own call when the
\* countdown it sees is 0, and the "initial fetch" of the timer effect, which
\* runs again because refreshData changes timeUntilRefresh either way
startedBy(timeUntilRefresh) == IF timeUntilRefresh <= 0 THEN 2 ELSE 1

\* the interval fires after one second: refreshData, then the re-render and
\* the timer effect that depends on timeUntilRefresh
RefreshData ==
    LET started == startedBy(app.timeUntilRefresh)
    IN  /\ app.mounted
        /\ now + 1000 <= MaxTimerTicks * 1000
        /\ Len(polls) + started <= MaxInFlight
        /\ now' = now + 1000
        /\ polls' = polls \o [k \in 1..started |-> NewPoll(NoAmount)]
        /\ app' = [app EXCEPT
                     !.timeUntilRefresh = IF @ <= 0 THEN 60 ELSE @ - 1]
        /\ call' = [op |-> "refreshData", arg |-> call.arg,
                    seen |-> app.timeUntilRefresh, started |-> started]
        /\ UNCHANGED <<ledger, rewardHistory, stats, run, chain>>

\* getTotalStakingInfo resolves and the fetchData of part_000 runs to its
\* end: setInitialAmount(), getStats(), and getStats() again
CompleteFetch ==
    \E i \in DOMAIN polls :
        LET p == polls[i]
            earned == earnedRewardsOf(p.reachable, p.rewardSum)
            afterStaking ==
                stakingState(rewardHistory, p.reachable, p.rewardSum, now)
            beforeStats == setInitialAmount(afterStaking, earned, now)
        IN  /\ p.stage = "read"
            /\ rewardHistory' = getStatsState(beforeStats, now)
            /\ app' = [app EXCEPT
                         !.initialEarned = <<earned>>,
                         !.sessionTotal =
                             Units(getStatsResult(beforeStats, now).sessionTotal)]
            /\ polls' = RemoveAt(polls, i)
            /\ UNCHANGED <<ledger, now, stats, call, run, chain>>

NextTimer == MountTimer \/ RefreshData \/ ReadChain \/ CompleteFetch

SpecTimer == Init /\ [][NextTimer]_vars

(* ------------------------- the loop of safeCall -------------------------- *)

maxRetries == 3

\* error.code of a rejected contract call: two codes end the loop, the
\* others (a revert, a network failure) are retried
ErrorCodes ==
    {"INVALID_ARGUMENT", "UNSUPPORTED_OPERATION", "CALL_EXCEPTION",
     "NETWORK_ERROR"}

\* a contract call settles with a uint256, with a tuple whose first element
\* is taken, with null, or with an error
ContractOutcomes ==
    {[kind |-> k, value |-> v, code |-> ""] :
        k \in {"value", "tuple"}, v \in {0, Units(SampleAmount)}}
    \cup {[kind |-> "null", value |-> 0, code |-> ""]}
    \cup {[kind |-> "error", value |-> 0, code |-> c] : c \in ErrorCodes}

\* safeCall that retries after every error
stopsRetry_never(code) == FALSE

stopsRetry(code) == code \in {"INVALID_ARGUMENT", "UNSUPPORTED_OPERATION"}

\* safeCall entered: i = 0, no invocation made
NewSafeCall(arg) ==
    [op |-> "safeCall", arg |-> arg, i |-> 0, stage |-> "calling",
     outcomes |-> << >>, waits |-> << >>, result |-> 0]

\* one pass of the loop body: await contract[method](...args) settles with
\* outcome o; the call returns, breaks, waits 1000 * (i + 1) ms or, at the
\* last index, leaves the loop and returns 0
safeCallAttempt(c, o) ==
    LET made == [c EXCEPT !.outcomes = Append(@, o)]
    IN  IF o.kind # "error"
        THEN [made EXCEPT !.stage = "returned", !.result = o.value]
        ELSE IF stopsRetry(o.code)
        THEN [made EXCEPT !.stage = "returned", !.result = 0]
        ELSE IF c.i < maxRetries - 1
        THEN [made EXCEPT !.stage = "waiting",
                          !.waits = Append(@, 1000 * (c.i + 1))]
        ELSE [made EXCEPT !.stage = "returned", !.result = 0]

\* the timer of the wait fires: i++ and the next pass
safeCallResume(c) == [c EXCEPT !.stage = "calling", !.i = @ + 1]

SafeCall ==
    /\ call.op = "safeCall" => call.stage = "returned"
    /\ now + 3 * 1000 <= MaxRetrySeconds * 1000
    /\ call' = NewSafeCall(call.arg)
    /\ UNCHANGED <<ledger, now, rewardHistory, stats, run, dashboard>>

AttemptCall ==
    /\ call.op = "safeCall"
    /\ call.stage = "calling"
    /\ \E o \in ContractOutcomes : call' = safeCallAttempt(call, o)
    /\ UNCHANGED <<ledger, now, rewardHistory, stats, run, dashboard>>

WaitElapsed ==
    /\ call.op = "safeCall"
    /\ call.stage = "waiting"
    /\ now' = now + call.waits[Len(call.waits)]
    /\ call' = safeCallResume(call)
    /\ UNCHANGED <<ledger, rewardHistory, stats, run, dashboard>>

NextRetry == SafeCall \/ AttemptCall \/ WaitElapsed

SpecRetry == Init /\ [][NextRetry]_vars

\* every awaited contract call settles and every timer fires
SpecRetryFair ==
    SpecRetry /\ WF_vars(AttemptCall) /\ WF_vars(WaitElapsed)

(* ------------------------- the loop of withRetry ------------------------- *)

settings == [maxRetries |-> 3, retryDelay |-> 1000]

\* error.statusCode || error.code of a rejected request; 0 stands for an
\* error that carries neither
Statuses == {0, 404, 429, 500, 599, 600}

\* a request settles with a response or with an error
RequestOutcomes ==
    {[kind |-> "value", value |-> v, status |-> 0] : v \in {1, 2}}
    \cup {[kind |-> "error", value |-> 0, status |-> st] : st \in Statuses}

\* withRetry that waits and retries after every error
retriable_anyError(status) == TRUE

retriable(status) == status = 429 \/ (status >= 500 /\ status < 600)

\* withRetry entered: attempt = 0, no invocation made
NewWithRetry(arg, maxRetriesArg, delay) ==
    [op |-> "withRetry", arg |-> arg, maxRetries |-> maxRetriesArg,
     delay |-> delay, attempt |-> 0, stage |-> "calling",
     outcomes |-> << >>, waits |-> << >>, result |-> 0, thrown |-> 0]

\* one pass of the loop body: await request() settles with outcome o; the
\* call returns, waits delay * 2^attempt ms, or breaks and throws lastError
withRetryAttempt(c, o) ==
    LET made == [c EXCEPT !.outcomes = Append(@, o)]
    IN  IF o.kind # "error"
        THEN [made EXCEPT !.stage = "returned", !.result = o.value]
        ELSE IF retriable(o.status)
        THEN [made EXCEPT !.stage = "waiting",
                          !.waits = Append(@, c.delay * 2^c.attempt)]
        ELSE [made EXCEPT !.stage = "threw", !.thrown = o.status]

\* the timer of the wait fires: continue, attempt++, and the next pass or,
\* the loop over, throw lastError
withRetryResume(c) ==
    IF c.attempt + 1 < c.maxRetries
    THEN [c EXCEPT !.stage = "calling", !.attempt = @ + 1]
    ELSE [c EXCEPT !.stage = "threw", !.attempt = @ + 1,
                   !.thrown = c.outcomes[Len(c.outcomes)].status]

WithRetry ==
    /\ call.op = "withRetry" => call.stage \in {"returned", "threw"}
    /\ now + 7 * settings.retryDelay <= MaxRetrySeconds * 1000
    /\ \E m \in 1..settings.maxRetries :
          call' = NewWithRetry(call.arg, m, settings.retryDelay)
    /\ UNCHANGED <<ledger, now, rewardHistory, stats, run, dashboard>>

AttemptRequest ==
    /\ call.op = "withRetry"
    /\ call.stage = "calling"
    /\ \E o \in RequestOutcomes : call' = withRetryAttempt(call, o)
    /\ UNCHANGED <<ledger, now, rewardHistory, stats, run, dashboard>>

BackoffElapsed ==
    /\ call.op = "withRetry"
    /\ call.stage = "waiting"
    /\ now' = now + call.waits[Len(call.waits)]
    /\ call' = withRetryResume(call)
    /\ UNCHANGED <<ledger, rewardHistory, stats, run, dashboard>>

NextBackoff == WithRetry \/ AttemptRequest \/ BackoffElapsed

SpecBackoff == Init /\ [][NextBackoff]_vars

(* ------------------ calls that go through the cache --------------------- *)

\* a transfer matching one of the queries is mined
Transfer ==
    \E k \in CacheKeys :
        /\ transfers[k] < MaxTransfers
        /\ transfers' = [transfers EXCEPT ![k] = @ + 1]
        /\ call' = [op |-> "transfer", arg |-> call.arg]
        /\ UNCHANGED <<now, rewardHistory, stats, run, dashboard,
                       responseCache, rewardTracker>>

GetAssetTransfersWithRetry ==
    \E k \in CacheKeys, sdkOk \in BOOLEAN, rpcOk \in BOOLEAN :
        LET r == getAssetTransfersWithRetry(responseCache, k, sdkOk, rpcOk,
                                            transfers[k])
        IN  /\ responseCache' = r.cache
            /\ call' = [op |-> "getAssetTransfersWithRetry",
                        arg |-> call.arg, key |-> k,
                        requests |-> r.requests, threw |-> r.threw,
                        response |-> r.response]
            /\ UNCHANGED <<now, rewardHistory, stats, run, dashboard,
                           transfers, rewardTracker>>

\* the Statistics panel: fetchLatestTx on mount and every 60 seconds
FetchLatestTx ==
    \E sdkOk \in BOOLEAN, rpcOk \in BOOLEAN, blockOk \in BOOLEAN :
        LET r == getLatestTransactionFromAddress(
                     responseCache, sdkOk, rpcOk, blockOk,
                     transfers["latestFromAddress"])
        IN  /\ responseCache' = r.cache
            /\ call' = [op |-> "fetchLatestTx", arg |-> call.arg,
                        key |-> "latestFromAddress",
                        requests |-> r.requests, failed |-> r.failed,
                        latestTx |-> r.tx]
            /\ UNCHANGED <<now, rewardHistory, stats, run, dashboard,
                           transfers, rewardTracker>>

NextCache == Transfer \/ GetAssetTransfersWithRetry \/ FetchLatestTx

SpecCache == Init /\ [][NextCache]_vars

(* ----------------- the per-token reads of one staking call -------------- *)

\* what safeCall('getStake') or safeCall('getStakingReward') resolves with
\* for one token, in base units; 0 also when every attempt has failed
TokenValues == {k * Units(SampleAmount) : k \in 0..2}

\* stakedSum = staked instead of stakedSum.add(staked)
add_overwrites(sum, value) == value

add(sum, value) == sum + value

\* the async callback of tokenIds.map, run up to its first await
NewTokenTask == [stage |-> "getStake", staked |-> 0, reward |-> 0]

\* getTotalStakingInfo has passed the getReserve probe and has started the
\* callbacks of all tokens; stakedSum and rewardSum are its locals
StartTokenReads ==
    /\ call.op = "getTotalStakingInfo" => call.stage = "returned"
    /\ call' = [op |-> "getTotalStakingInfo", arg |-> call.arg,
                stage |-> "reading",
                tasks |-> [tk \in TokenIds |-> NewTokenTask],
                order |-> << >>,
                stakedSum |-> 0, rewardSum |-> 0,
                stakedAmount |-> ZeroDecimal, earnedRewards |-> ZeroDecimal,
                updated |-> NoAmount]
    /\ UNCHANGED <<now, rewardHistory, stats, run, dashboard, ledger>>

\* safeCall('getStake', tokenId) resolves; the callback goes on to await
\* safeCall('getStakingReward', tokenId)
StakeRead ==
    \E tk \in TokenIds, v \in TokenValues :
        /\ call.op = "getTotalStakingInfo"
        /\ call.stage = "reading"
        /\ call.tasks[tk].stage = "getStake"
        /\ call' = [call EXCEPT !.tasks[tk].stage = "getStakingReward",
                                !.tasks[tk].staked = v]
        /\ UNCHANGED <<now, rewardHistory, stats, run, dashboard, ledger>>

\* safeCall('getStakingReward', tokenId) resolves; the callback adds both
\* values to the sums and returns the entry of the token
RewardRead ==
    \E tk \in TokenIds, v \in TokenValues :
        /\ call.op = "getTotalStakingInfo"
        /\ call.stage = "reading"
        /\ call.tasks[tk].stage = "getStakingReward"
        /\ call' = [call EXCEPT
                      !.tasks[tk].stage = "done",
                      !.tasks[tk].reward = v,
                      !.order = Append(@, tk),
                      !.stakedSum = add(@, call.tasks[tk].staked),
                      !.rewardSum = add(@, v)]
        /\ UNCHANGED <<now, rewardHistory, stats, run, dashboard, ledger>>

\* Promise.all resolves: the sums are formatted, update() is called when
\* rewardSum > 0, then getStats(), and the result is returned
ReturnStakingInfo ==
    /\ call.op = "getTotalStakingInfo"
    /\ call.stage = "reading"
    /\ \A tk \in TokenIds : call.tasks[tk].stage = "done"
    /\ rewardHistory' = stakingState(rewardHistory, TRUE, call.rewardSum, now)
    /\ Len(rewardHistory'.history) <= MaxHistory
    /\ stats' = stakingStats(rewardHistory, TRUE, call.rewardSum, now)
    /\ call' = [call EXCEPT
                  !.stage = "returned",
                  !.stakedAmount = formatEther(call.stakedSum),
                  !.earnedRewards = formatEther(call.rewardSum),
                  !.updated = IF call.rewardSum > 0
                              THEN <<formatEther(call.rewardSum)>>
                              ELSE NoAmount]
    /\ UNCHANGED <<now, run, dashboard, ledger>>

NextTokens == StartTokenReads \/ StakeRead \/ RewardRead \/ ReturnStakingInfo

SpecTokens == Init /\ [][NextTokens]_vars

(* ---------------------- calls of the RewardTracker ----------------------- *)

AddReward ==
    \E r \in TrackerRewards :
        /\ Len(rewardTracker.rewardHistory) < MaxTrackerPoints
        /\ rewardTracker' = addReward(rewardTracker, r, now)
        /\ call' = [op |-> "addReward", arg |-> call.arg, reward |-> r]
        /\ UNCHANGED <<now, rewardHistory, stats, run, dashboard,
                       responseCache, transfers>>

GetRewardsLastMinute ==
    /\ rewardTracker' = cleanupOldData(rewardTracker, now)
    /\ call' = [op |-> "getRewardsLastMinute", arg |-> call.arg,
                result |-> getRewardsLastMinute(rewardTracker, now)]
    /\ UNCHANGED <<now, rewardHistory, stats, run, dashboard,
                   responseCache, transfers>>

NextTracker == Advance \/ AddReward \/ GetRewardsLastMinute

SpecTracker == Init /\ [][NextTracker]_vars

(* ------------------ successive getRewardDifference() calls -------------- *)

\* the counter values handed to getRewardDifference()
DifferenceRewards == {k * Units(SampleAmount) : k \in 0..3}

\* One call. Beside the argument and the value returned, the call keeps the
\* argument of the call before it (0 before any call), the sum of the values
\* returned so far and the sum of the rises of the counter so far.
GetRewardDifference ==
    \E c \in DifferenceRewards :
        LET first    == call.op # "getRewardDifference"
            previous == IF first THEN 0 ELSE call.current
            calls    == IF first THEN 0 ELSE call.calls
            returned == IF first THEN 0 ELSE call.returned
            rises    == IF first THEN 0 ELSE call.rises
            r        == getRewardDifference(rewardTracker, c)
        IN  /\ calls < MaxDifferenceCalls
            /\ rewardTracker' = r.tracker
            /\ call' = [op |-> "getRewardDifference", arg |-> call.arg,
                        previous |-> previous, current |-> c,
                        difference |-> r.difference, calls |-> calls + 1,
                        returned |-> returned + r.difference,
                        rises |-> rises + IF c > previous THEN c - previous
                                          ELSE 0]
            /\ UNCHANGED <<now, rewardHistory, stats, run, dashboard,
                           responseCache, transfers>>

NextDifference == GetRewardDifference

SpecDifference == Init /\ [][NextDifference]_vars

(* --------------- the concurrent lookups of getTokensOfOwner ------------- *)

\* the id the contract holds for the wallet at index i; ids fall while
\* indexes rise, so that index order differs from id order
tokenOfOwnerByIndex(i) == 9 - i

\* the ids in the order in which their lookups settled
RECURSIVE tokenIds_inCompletionOrder(_, _)
tokenIds_inCompletionOrder(lookups, order) ==
    IF order = << >> THEN << >>
    ELSE LET i == Head(order)
             rest == tokenIds_inCompletionOrder(lookups, Tail(order))
         IN  IF lookups[i].state = "resolved"
             THEN <<lookups[i].tokenId>> \o rest
             ELSE rest

\* Promise.all(tokenPromises) followed by filter(tokenId !== null): the
\* values by position in tokenPromises, without the nulls
RECURSIVE tokenIds(_, _)
tokenIds(lookups, order) ==
    IF DOMAIN lookups = {} THEN << >>
    ELSE LET last == CHOOSE i \in DOMAIN lookups :
                         \A j \in DOMAIN lookups : j <= i
             rest == tokenIds([i \in DOMAIN lookups \ {last} |-> lookups[i]],
                              order)
         IN  IF lookups[last].state = "resolved"
             THEN Append(rest, lookups[last].tokenId)
             ELSE rest

\* getTokensOfOwner up to its second await: the address checks and the
\* balanceOf read; on a throw the catch block returns [], otherwise one
\* lookup per index is started. A lookup is pending until its promise
\* resolves, with the id after then() or with null after catch().
StartLookups ==
    \E ownerAddress \in Addresses, contractAddress \in Addresses,
       balanceOfRead \in {"ok", "throws"}, tokenCount \in 0..MaxTokenCount :
        LET threw == \/ ~isAddress(ownerAddress)
                     \/ ~isAddress(contractAddress)
                     \/ balanceOfRead = "throws"
        IN  /\ call.op = "getTokensOfOwner" => call.stage = "returned"
            /\ call' = [op |-> "getTokensOfOwner", arg |-> call.arg,
                        stage |-> IF threw THEN "returned" ELSE "reading",
                        threw |-> threw,
                        lookups |-> IF threw THEN << >>
                                    ELSE [i \in 0..(tokenCount - 1)
                                             |-> [state |-> "pending",
                                                  tokenId |-> 0]],
                        order |-> << >>,
                        result |-> << >>]
            /\ UNCHANGED <<now, rewardHistory, stats, run, dashboard, ledger>>

\* one tokenOfOwnerByIndex lookup settles, whichever index it has
LookupSettles ==
    \E i \in 0..(MaxTokenCount - 1), succeeded \in BOOLEAN :
        /\ call.op = "getTokensOfOwner"
        /\ call.stage = "reading"
        /\ i \in DOMAIN call.lookups
        /\ call.lookups[i].state = "pending"
        /\ call' = [call EXCEPT
                      !.lookups[i] =
                          IF succeeded
                          THEN [state |-> "resolved",
                                tokenId |-> tokenOfOwnerByIndex(i)]
                          ELSE [state |-> "null", tokenId |-> 0],
                      !.order = Append(@, i)]
        /\ UNCHANGED <<now, rewardHistory, stats, run, dashboard, ledger>>

\* Promise.all resolves and the filtered list is returned
ReturnTokens ==
    /\ call.op = "getTokensOfOwner"
    /\ call.stage = "reading"
    /\ \A i \in DOMAIN call.lookups : call.lookups[i].state # "pending"
    /\ call' = [call EXCEPT !.stage = "returned",
                            !.result = tokenIds(call.lookups, call.order)]
    /\ UNCHANGED <<now, rewardHistory, stats, run, dashboard, ledger>>

NextLookups == StartLookups \/ LookupSettles \/ ReturnTokens

SpecLookups == Init /\ [][NextLookups]_vars

(* ------------------- the console script's checkStaking ------------------ *)

\* what contract.earned() returns to the script, in base units
EarnedValues == {k * Units(SampleAmount) : k \in 0..3}

\* the module-level variables of the script when it is loaded; an amount
\* string is held as its number of base units, so '0' is 0. Beside them the
\* number of runs, of runs that passed getStakingInfo(), and what the first
\* such run read.
NewScript ==
    [op |-> "checkStaking", arg |-> call.arg,
     initialEarned |-> 0, lastEarned |-> ZeroDecimal,
     runs |-> 0, successes |-> 0, firstEarned |-> NoAmount]

\* one run in which getStakingInfo() resolves
CheckStaking ==
    \E earned \in EarnedValues :
        LET s == IF call.op = "checkStaking" THEN call ELSE NewScript
            assigns == s.initialEarned = 0
        IN  /\ s.runs < MaxConsoleRuns
            /\ call' = [s EXCEPT
                          !.initialEarned = IF assigns THEN earned ELSE @,
                          !.lastEarned = formatEther(earned),
                          !.runs = @ + 1,
                          !.successes = @ + 1,
                          !.firstEarned = IF s.successes = 0 THEN <<earned>>
                                          ELSE @]
            /\ UNCHANGED <<now, rewardHistory, stats, run, dashboard, ledger>>

\* one run in which getStakingInfo() throws: the catch block logs the error
CheckStakingFails ==
    LET s == IF call.op = "checkStaking" THEN call ELSE NewScript
    IN  /\ s.runs < MaxConsoleRuns
        /\ call' = [s EXCEPT !.runs = @ + 1]
        /\ UNCHANGED <<now, rewardHistory, stats, run, dashboard, ledger>>

NextConsole == CheckStaking \/ CheckStakingFails

SpecConsole == Init /\ [][NextConsole]_vars

(* ------------------- the recording time of a delta ---------------------- *)

\* time passes; the call last made and the entry it recorded stay known
Pass ==
    \E d \in TickSteps :
        /\ now + d <= MaxNow
        /\ now' = now + d
        /\ stats' = ZeroStats
        /\ UNCHANGED <<ledger, rewardHistory, call, run, dashboard>>

\* update() pushes a point in every branch but the zero-difference branch
\* with a non-empty history, which re-dates the last point instead
pushesPoint(rh, currentAmount) ==
    ~(/\ rh.initialized
      /\ toWeiString(currentAmount) = rh.lastAmount
      /\ rh.history # << >>)

\* update(a); recordedAt is the time at which the newest entry of history
\* was pushed
UpdateRecorded ==
    \E a \in AmountInputs :
        /\ rewardHistory' = update(rewardHistory, a, now)
        /\ Len(rewardHistory'.history) <= MaxHistory
        /\ call' = [op |-> "update", arg |-> a,
                    recordedAt |-> IF pushesPoint(rewardHistory, a)
                                   THEN now ELSE call.recordedAt]
        /\ stats' = ZeroStats
        /\ UNCHANGED <<ledger, now, run, dashboard>>

\* getStats(); initialize() pushes its newest sample dated at the call
GetStatsRecorded ==
    /\ rewardHistory' = getStatsState(rewardHistory, now)
    /\ stats' = getStatsResult(rewardHistory, now)
    /\ call' = [op |-> "getStats", arg |-> call.arg,
                recordedAt |-> IF ~rewardHistory.initialized
                               THEN now ELSE call.recordedAt]
    /\ UNCHANGED <<ledger, now, run, dashboard>>

NextWindow == Pass \/ UpdateRecorded \/ GetStatsRecorded

SpecWindow == Init /\ [][NextWindow]_vars

(* ------------------ the deltas held since the session start -------------- *)

\* update() starts a session in its first-update and claim branches
startsSession(rh, currentAmount) ==
    ~rh.initialized \/ toWeiString(currentAmount) < rh.lastAmount

\* cleanup() at time t removes an entry of h
prunes(h, t) == Len(SelectPoints(h, t - windowMs)) < Len(h)

\* update(a); pruned tells whether an entry has been removed from history
\* since the session started
UpdateSession ==
    \E a \in AmountInputs :
        LET pushed == addDifference(rewardHistory, toWeiString(a), now)
        IN  /\ rewardHistory' = update(rewardHistory, a, now)
            /\ Len(rewardHistory'.history) <= MaxHistory
            /\ call' = [op |-> "update", arg |-> a,
                        pruned |-> IF startsSession(rewardHistory, a)
                                   THEN FALSE
                                   ELSE call.pruned
                                          \/ prunes(pushed.history, now)]
            /\ stats' = ZeroStats
            /\ UNCHANGED <<now, run, dashboard, ledger>>

\* getStats(), called after the first update() only
GetStatsSession ==
    /\ rewardHistory.initialAmount # NoAmount
    /\ rewardHistory' = getStatsState(rewardHistory, now)
    /\ stats' = getStatsResult(rewardHistory, now)
    /\ call' = [op |-> "getStats", arg |-> call.arg,
                pruned |-> call.pruned \/ prunes(rewardHistory.history, now)]
    /\ UNCHANGED <<now, run, dashboard, ledger>>

NextDeltas == Pass \/ UpdateSession \/ GetStatsSession \/ Reset

SpecDeltas == Init /\ [][NextDeltas]_vars

(* ------------------------- claims: helpers ------------------------------ *)

history == rewardHistory.history

Tracking == rewardHistory.initialized

Fresh(p) == p.timestamp >= now - windowMs

LastPoint(h) == h[Len(h)]

Front(h) == SubSeq(h, 1, Len(h) - 1)

Amounts(h) == [i \in DOMAIN h |-> h[i].amount]

IsSuffix(s, t) ==
    /\ Len(s) <= Len(t)
    /\ s = SubSeq(t, Len(t) - Len(s) + 1, Len(t))

\* this step is the end of the fetchData() poll polls[i]
Completes(i) == polls[i].stage = "read" /\ polls' = RemoveAt(polls, i)

(* ------------------------------ claims ---------------------------------- *)

\* C1 Monotonic accumulation: after construction or reset(), update() calls
\* with non-decreasing amounts c0 <= ... <= cn at any spacing in time,
\* followed by getStats(), report sessionTotal = cn - c0, which is not
\* negative.
C1_MonotonicAccumulation ==
    (call.op = "getStats" /\ run.plain /\ run.first # NoAmount)
        => /\ Units(stats.sessionTotal) = Units(call.arg) - Units(run.first[1])
           /\ Units(stats.sessionTotal) >= 0

\* c0 < c1 < c2 were passed at three different times
C1_Witness ==
    /\ call.op = "getStats"
    /\ run.plain
    /\ run.first # NoAmount
    /\ Units(stats.sessionTotal) = 2 * Units(SampleAmount)
    /\ Len(history) = 3
    /\ history[1].timestamp < history[2].timestamp
    /\ history[2].timestamp < history[3].timestamp
    /\ history[3].timestamp < now

\* C2 First-update initialisation: the first update(c) after construction or
\* reset(), with no setInitialAmount() before it and whatever getStats()
\* calls were made before it, sets baseline = last = c and sessionStart =
\* now and records only a zero-delta sample at now.
C2_FirstUpdateInitialises ==
    [][(call'.op = "update" /\ run.first = NoAmount /\ run.setInitial = 0)
        => /\ rewardHistory'.initialAmount = <<Units(call'.arg)>>
           /\ rewardHistory'.lastAmount = Units(call'.arg)
           /\ rewardHistory'.startTime = now'
           /\ rewardHistory'.initialized
           /\ rewardHistory'.history = Append(history, RewardPoint(now', 0))
      ]_vars

\* C3 Rollback resets the session: in Tracking state update(c) with
\* c < lastAmount leaves exactly one history entry, of zero delta and dated
\* now, sets baseline = last = c and sessionStart = now, and getStats()
\* right afterwards reports sessionTotal 0.
C3_RollbackResetsSession ==
    [][(call'.op = "update" /\ Tracking
            /\ Units(call'.arg) < rewardHistory.lastAmount)
        => /\ rewardHistory'.history = <<RewardPoint(now', 0)>>
           /\ rewardHistory'.initialAmount = <<Units(call'.arg)>>
           /\ rewardHistory'.lastAmount = Units(call'.arg)
           /\ rewardHistory'.startTime = now'
           /\ getStatsResult(rewardHistory', now').sessionTotal = ZeroDecimal
      ]_vars

\* an update() below the first amount of the session has just returned
C3_Witness ==
    /\ call.op = "update"
    /\ run.first # NoAmount
    /\ run.setInitial = 0
    /\ Units(call.arg) < Units(run.first[1])
    /\ Units(call.arg) > 0
    /\ history = <<RewardPoint(now, 0)>>
    /\ rewardHistory.startTime = now
    /\ now > 0

\* C4 A failed poll does not lose or corrupt stats: a poll of a running
\* dashboard session in which a chain read failed (contract unreachable, or
\* the reads of one token out of retries) leaves baseline, lastAmount,
\* sessionStart and the history deltas as they were, window pruning apart.
\* Stated for the failed polls whose remaining reads add up to less than
\* the lastAmount on record.
C4_FailedPollKeepsStats ==
    [][\A i \in DOMAIN polls :
        (Completes(i) /\ polls[i].failed /\ polls[i].initialEarned # NoAmount
                /\ polls[i].rewardSum < rewardHistory.lastAmount)
            => /\ rewardHistory'.initialAmount = rewardHistory.initialAmount
               /\ rewardHistory'.lastAmount = rewardHistory.lastAmount
               /\ rewardHistory'.startTime = rewardHistory.startTime
               /\ IsSuffix(Amounts(rewardHistory'.history), Amounts(history))
      ]_vars

\* C5 A decrease of the on-chain earned counter, also one to exactly 0, is
\* detected by the first poll that observes it: that poll restarts the
\* session (history cleared, baseline = last = new value, sessionStart = now).
C5_DecreaseDetectedByPoll ==
    [][\A i \in DOMAIN polls :
        (Completes(i) /\ ~polls[i].failed
                /\ rewardHistory.initialAmount # NoAmount
                /\ polls[i].rewardSum < rewardHistory.lastAmount)
            => /\ rewardHistory'.history = <<RewardPoint(now, 0)>>
               /\ rewardHistory'.initialAmount = <<polls[i].rewardSum>>
               /\ rewardHistory'.lastAmount = polls[i].rewardSum
               /\ rewardHistory'.startTime = now
      ]_vars

\* C6 Window pruning: after update() or getStats() returns, history holds no
\* entry older than now - windowMs, in every branch of update(), and the
\* window total of getStats() is the sum of the entries inside the window.
C6_WindowPruned ==
    (call.op \in {"update", "getStats"})
        => /\ \A i \in DOMAIN history : Fresh(history[i])
           /\ call.op = "getStats"
                => stats.totalRewards = SumAmounts(SelectSeq(history, Fresh))

\* an update() has dropped a delta of the running session from history
C6_Witness ==
    /\ call.op = "update"
    /\ run.plain
    /\ run.first # NoAmount
    /\ now > windowMs
    /\ Len(history) >= 1
    /\ SumAmounts(history) < rewardHistory.lastAmount - Units(run.first[1])

\* C7 history is sorted by timestamp ascending in every reachable state.
C7_HistorySorted ==
    \A i, j \in DOMAIN history :
        i < j => history[i].timestamp <= history[j].timestamp

\* the warm-up samples of getStats(), then a delta appended at a later time
C7_Witness ==
    /\ call.op = "update"
    /\ Len(history) = 6
    /\ history[1].amount = Units(SampleAmount)
    /\ history[1].timestamp < history[2].timestamp
    /\ history[5].timestamp < history[6].timestamp
    /\ history[6].timestamp = now
    /\ history[6].amount > 0
    /\ Units(call.arg) = rewardHistory.lastAmount
    /\ history[6].amount = rewardHistory.lastAmount

\* C8 Whenever the baseline is present, lastAmount >= initialAmount.
C8_LastAtLeastBaseline ==
    rewardHistory.initialAmount # NoAmount
        => rewardHistory.lastAmount >= rewardHistory.initialAmount[1]

\* after setInitialAmount() and a rollback, the counter is above the baseline
C8_Witness ==
    /\ rewardHistory.initialAmount # NoAmount
    /\ run.setInitial = 1
    /\ run.first # NoAmount
    /\ rewardHistory.initialAmount[1] < Units(run.first[1])
    /\ rewardHistory.lastAmount > rewardHistory.initialAmount[1]
    /\ rewardHistory.initialAmount[1] > 0

\* C9 The session total every dashboard poll hands to the presentation layer
\* is never negative, also after the earned counter has fallen below the
\* value of the first poll.
C9_ShownSessionTotalNotNegative == app.sessionTotal >= 0

\* C10 Positive-delta step: in Tracking state update(c) with c > lastAmount
\* appends exactly one entry {timestamp: now, amount: c - lastAmount} to the
\* entries still inside the window, sets lastAmount = c and leaves the
\* baseline and sessionStart unchanged.
C10_PositiveDeltaStep ==
    [][(call'.op = "update" /\ Tracking
            /\ Units(call'.arg) > rewardHistory.lastAmount)
        => /\ Len(rewardHistory'.history) >= 1
           /\ LastPoint(rewardHistory'.history)
                = RewardPoint(now', Units(call'.arg) - rewardHistory.lastAmount)
           /\ Front(rewardHistory'.history)
                = SelectSeq(history, LAMBDA p : p.timestamp >= now' - windowMs)
           /\ rewardHistory'.lastAmount = Units(call'.arg)
           /\ rewardHistory'.initialAmount = rewardHistory.initialAmount
           /\ rewardHistory'.startTime = rewardHistory.startTime
      ]_vars

\* a positive delta has just been appended behind an older entry
C10_Witness ==
    /\ call.op = "update"
    /\ rewardHistory.initialAmount # NoAmount
    /\ Len(history) >= 2
    /\ LastPoint(history).timestamp = now
    /\ LastPoint(history).amount = Units(SampleAmount)
    /\ rewardHistory.lastAmount = Units(call.arg)
    /\ rewardHistory.lastAmount = 2 * Units(SampleAmount)
    /\ rewardHistory.startTime < now

C12_FixedDivisorRate ==
    call.op = "getStats"
        => /\ Units(stats.currentRate.perMinute) = SumAmounts(history) \div 5
           /\ Units(stats.currentRate.perHour)
                = Units(stats.currentRate.perMinute) * 60
           /\ Units(stats.currentRate.perDay)
                = Units(stats.currentRate.perHour) * 24

\* getStats() of a session two minutes old whose retained entries, the
\* first sample and one positive delta, span one minute
C12_Witness ==
    /\ call.op = "getStats"
    /\ run.plain
    /\ now - rewardHistory.startTime = 2 * MsPerMinute
    /\ Len(history) = 2
    /\ history[2].timestamp - history[1].timestamp = MsPerMinute
    /\ history[2].amount = 2 * Units(SampleAmount)
    /\ Units(stats.currentRate.perMinute) * 5 = 2 * Units(SampleAmount)
    /\ Units(stats.currentRate.perMinute) > 0

\* C13 update() takes the cumulative counter in base units and records it
\* unscaled: after reset(); update(0); 60 seconds; update(B), B the base
\* units of 0.0001 tokens, getStats() reports a session total of 0.0001
\* tokens, a window total of B base units and currentRate.perMinute of B/5
\* base units.
C13_BaseUnitsUnscaled ==
    (/\ call.op = "getStats"
     /\ run.plain
     /\ run.first = <<ZeroDecimal>>
     /\ call.arg = [whole |-> parseEther(SampleAmount), frac |-> 0]
     /\ now - rewardHistory.startTime = 60 * 1000
     /\ Len(history) = 2
     /\ history[1].timestamp = rewardHistory.startTime)
        => /\ stats.sessionTotal = SampleAmount
           /\ stats.totalRewards = call.arg.whole
           /\ parseEther(stats.currentRate.perMinute) = call.arg.whole \div 5

\* C14 Minimum session duration floor: every getStats() result has
\* sessionDurationMinutes >= 1, and exactly 1 whenever less than one minute
\* has elapsed since sessionStart.  (sessionDurationMinutes is in 1/60000
\* minute.)
C14_DurationFloor ==
    call.op = "getStats"
        => /\ stats.sessionDurationMinutes >= 1 * 60000
           /\ now - rewardHistory.startTime < 60000
                => stats.sessionDurationMinutes = 1 * 60000

\* getStats() half a minute after the first update()
C14_Witness ==
    /\ call.op = "getStats"
    /\ run.first # NoAmount
    /\ run.setInitial = 0
    /\ rewardHistory.initialAmount # NoAmount
    /\ now - rewardHistory.startTime = 30000
    /\ stats.sessionDurationMinutes = 60000

\* the numeric fields of a getStats() result
NumericFields(r) ==
    <<r.sessionTotal, r.sessionDurationMinutes, r.sessionPerMinute,
      r.currentRate.perMinute, r.currentRate.perHour, r.currentRate.perDay>>

\* C15 Idempotent reads: when getStats() has just returned, in any state
\* including the uninitialized one, a second getStats() with no other call
\* and no clock advance in between returns the same numeric fields and
\* changes no accumulator state.
C15_IdempotentReads ==
    call.op = "getStats"
        => /\ NumericFields(getStatsResult(rewardHistory, now))
                = NumericFields(stats)
           /\ getStatsState(rewardHistory, now) = rewardHistory

\* getStats() on the uninitialized accumulator has just seeded the warm-up
\* samples
C15_Witness ==
    /\ call.op = "getStats"
    /\ run.first = NoAmount
    /\ run.setInitial = 0
    /\ rewardHistory.initialAmount = NoAmount
    /\ now > 0
    /\ history = SamplePoints(now)
    /\ Units(stats.currentRate.perMinute) = Units(SampleAmount)

\* the milliseconds between sessionStart and the latest update() call
ElapsedAtLastUpdate == LastUpdateTime - rewardHistory.startTime

\* this step is a poll that carries the amount of the poll before it, at a
\* later time
RepeatsPoll ==
    /\ call.op = "poll"
    /\ call'.op = "poll"
    /\ call'.arg = call.arg
    /\ call'.streak = call.streak + 1

\* C16 Over a run of consecutive update() calls that carry the same
\* cumulative value at strictly increasing times, each followed by
\* getStats(): sessionTotal stays constant, sessionDurationMinutes does not
\* decrease, sessionPerMinute is sessionTotal * 60000 / elapsed ms when
\* elapsed > 0 and 0 otherwise, and sessionPerMinute does not increase from
\* a result taken with elapsed > 0 to the next.
C16_SameValueRun ==
    [][RepeatsPoll
        => /\ stats'.sessionTotal = stats.sessionTotal
           /\ stats'.sessionDurationMinutes >= stats.sessionDurationMinutes
           /\ Units(stats'.sessionPerMinute)
                = IF now' - rewardHistory'.startTime > 0
                  THEN (Units(stats'.sessionTotal) * 60000)
                         \div (now' - rewardHistory'.startTime)
                  ELSE 0
           /\ ElapsedAtLastUpdate > 0
                => Units(stats'.sessionPerMinute) <= Units(stats.sessionPerMinute)
      ]_vars

\* C16 as stated: sessionPerMinute does not increase from any result of the
\* run to the next.
C16_RateNeverIncreases ==
    [][RepeatsPoll
        => Units(stats'.sessionPerMinute) <= Units(stats.sessionPerMinute)
      ]_vars

\* the third poll in a row with the same amount, three minutes into a
\* session that has earned 0.0001
C16_Witness ==
    /\ call.op = "poll"
    /\ call.streak = 3
    /\ stats.sessionTotal = SampleAmount
    /\ stats.sessionDurationMinutes = 3 * 60000
    /\ Units(stats.sessionPerMinute) = Units(SampleAmount) \div 3

\* C17 reset() from any reachable state yields the uninitialized state
\* (history empty, baseline absent, lastAmount 0, not initialised,
\* sessionStart = now), which is the state of a RewardHistory constructed at
\* the time of the reset, so that every later call gives the result it
\* would give on that fresh object.
C17_ResetIsFresh ==
    call.op = "reset"
        => /\ history = << >>
           /\ rewardHistory.initialAmount = NoAmount
           /\ rewardHistory.lastAmount = 0
           /\ ~rewardHistory.initialized
           /\ rewardHistory.startTime = now
           /\ rewardHistory = NewRewardHistory(now)
           /\ getStatsResult(rewardHistory, now)
                = getStatsResult(NewRewardHistory(now), now)

\* reset() has just ended, later than construction, a session in which
\* 0.0002 had been passed
C17_Witness ==
    /\ call.op = "reset"
    /\ call.arg = [whole |-> 0, frac |-> 2 * SampleAmount.frac]
    /\ now > 0
    /\ rewardHistory.startTime = now
    /\ ~rewardHistory.initialized

\* C18 setInitialAmount(a), called in any state, sets baseline = lastAmount
\* = a and sessionStart = now, moves the accumulator to Tracking and leaves
\* history exactly as it was: no entry added, removed or dated anew.
C18_SetInitialAmountFrame ==
    [][call'.op = "setInitialAmount"
        => /\ rewardHistory'.initialAmount = <<Units(call'.arg)>>
           /\ rewardHistory'.lastAmount = Units(call'.arg)
           /\ rewardHistory'.startTime = now'
           /\ rewardHistory'.initialized
           /\ rewardHistory'.history = history
      ]_vars

\* setInitialAmount() has just returned, and history still holds the entries
\* of the session before it, one of them older than the window
C18_Witness ==
    /\ call.op = "setInitialAmount"
    /\ rewardHistory.initialAmount = <<Units(call.arg)>>
    /\ rewardHistory.lastAmount = Units(call.arg)
    /\ rewardHistory.startTime = now
    /\ Len(history) >= 2
    /\ history[1].timestamp < now - windowMs
    /\ LastPoint(history).amount > 0
    /\ LastPoint(history).timestamp < now

\* this step changes sessionStart or the baseline
SessionRestarts ==
    \/ rewardHistory'.startTime # rewardHistory.startTime
    \/ rewardHistory'.initialAmount # rewardHistory.initialAmount

\* C19 sessionStart and the baseline change only on the first update(), on
\* setInitialAmount(), on reset() or on an update() that observes a
\* decrease; getStats() and any update() with a value >= lastAmount in
\* Tracking state leave both unchanged, and getStats() also leaves
\* lastAmount unchanged.
C19_SessionFrame ==
    [][/\ SessionRestarts
            => \/ call'.op \in {"setInitialAmount", "reset"}
               \/ call'.op = "update" /\ ~Tracking
               \/ call'.op = "update"
                    /\ Units(call'.arg) < rewardHistory.lastAmount
       /\ call'.op = "getStats"
            => /\ ~SessionRestarts
               /\ rewardHistory'.lastAmount = rewardHistory.lastAmount
       /\ (call'.op = "update" /\ Tracking
                /\ Units(call'.arg) >= rewardHistory.lastAmount)
            => ~SessionRestarts
      ]_vars

\* getStats() has pruned every entry of a session older than the window and
\* the session goes on
C19_Witness ==
    /\ call.op = "getStats"
    /\ rewardHistory.initialAmount # NoAmount
    /\ rewardHistory.lastAmount > rewardHistory.initialAmount[1]
    /\ rewardHistory.startTime < now - windowMs
    /\ history = << >>
    /\ Units(stats.sessionTotal)
         = rewardHistory.lastAmount - rewardHistory.initialAmount[1]

FetchCalls == {"getMystBalance", "getTokensOfOwner", "getTotalStakingInfo"}

\* what each fetcher returns from its catch block
DefaultResult(op) ==
    IF op = "getMystBalance" THEN DefaultBalance
    ELSE IF op = "getTokensOfOwner" THEN << >>
    ELSE DefaultStakingInfo

C21_OnePollInFlight == Len(polls) <= 1

\* C22 update() never throws, and an argument that is no valid non-negative
\* amount (non-numeric, negative, or a decimal that cannot be converted) is
\* rejected: baseline, lastAmount, sessionStart, the initialised flag and
\* history are left unchanged, in the uninitialized state and in Tracking.
C22_InvalidArgumentRejected ==
    [][(call'.op = "update" /\ call'.arg.form # "decimal")
        => /\ ~call'.threw
           /\ rewardHistory' = rewardHistory
      ]_vars


\* C23: a delta recorded at time t counts in the window total only of
\* getStats() calls made no later than t + windowMs.  The entries of history
\* are in time order, so a positive window total counts the newest entry.
C23_WindowBoundedByRecording ==
    (call.op = "getStats" /\ stats.totalRewards > 0)
        => now <= call.recordedAt + windowMs


\* C24: a run of the one-second timer callback that sees a countdown above 0
\* starts no fetchData().
C24_PollOnlyAtZero ==
    (call.op = "refreshData" /\ call.seen > 0) => call.started = 0


\* this step is a getStats() that pushes the five warm-up samples after the
\* entries its cleanup() keeps
SeedsWarmUp ==
    /\ call'.op = "getStats"
    /\ history' = SelectPoints(history, now - windowMs) \o SamplePoints(now)

SafeCallContract ==
    call.op = "safeCall"
        => LET n == Len(call.outcomes)
               last == call.outcomes[n]
           IN  /\ n <= maxRetries
               /\ call.stage \in {"calling", "waiting", "returned"}
               /\ \A k \in 1..n :
                      (call.stage # "returned" \/ k < n)
                          => /\ call.outcomes[k].kind = "error"
                             /\ call.outcomes[k].code \notin
                                    {"INVALID_ARGUMENT",
                                     "UNSUPPORTED_OPERATION"}
               /\ call.waits =
                      [k \in 1..(IF call.stage = "returned" THEN n - 1 ELSE n)
                          |-> 1000 * k]
               /\ call.stage = "returned"
                      => call.result =
                            IF last.kind = "error" THEN 0 ELSE last.value

\* C26: safeCall always terminates without throwing: at most 3 invocations,
\* none after an INVALID_ARGUMENT or UNSUPPORTED_OPERATION error, a wait of
\* 1000 * (i + 1) ms only between two attempts, and the first successful
\* result returned, or 0 when no attempt succeeds.
C26_SafeCallReturns ==
    /\ []SafeCallContract
    /\ (call.op = "safeCall") ~> (call.op = "safeCall" /\ call.stage = "returned")

\* two attempts fail with a retried error and the third succeeds, after
\* waits of one and two seconds
C26_Witness ==
    /\ call.op = "safeCall"
    /\ call.stage = "returned"
    /\ Len(call.outcomes) = 3
    /\ call.waits = <<1000, 2000>>
    /\ call.result = Units(SampleAmount)
    /\ now >= 3000


\* C27: withRetry makes at most maxRetries invocations of the request; an
\* invocation is followed by another only if it failed with status 429 or
\* 500..599 and a wait of delay * 2^attempt ms has passed; any other error
\* ends the loop; the first successful result is returned, and otherwise
\* the last error is thrown.
C27_WithRetryContract ==
    call.op = "withRetry"
        => LET n == Len(call.outcomes)
               last == call.outcomes[n]
               pending == call.stage \in {"calling", "waiting"}
           IN  /\ n <= call.maxRetries
               /\ \A k \in 1..n :
                      (pending \/ k < n)
                          => /\ call.outcomes[k].kind = "error"
                             /\ \/ call.outcomes[k].status = 429
                                \/ call.outcomes[k].status \in 500..599
               /\ Len(call.waits) \in {n - 1, n}
               /\ pending => Len(call.waits) = n
               /\ \A k \in DOMAIN call.waits :
                      call.waits[k] = call.delay * 2^(k - 1)
               /\ call.stage = "returned"
                      => /\ last.kind = "value"
                         /\ call.result = last.value
               /\ call.stage = "threw"
                      => /\ last.kind = "error"
                         /\ call.thrown = last.status
                         /\ \/ n = call.maxRetries
                            \/ ~(last.status = 429 \/ last.status \in 500..599)

\* two requests fail with 429 or a server error and the third succeeds,
\* after waits of one and two seconds
C27_Witness ==
    /\ call.op = "withRetry"
    /\ call.stage = "returned"
    /\ call.maxRetries = 3
    /\ Len(call.outcomes) = 3
    /\ call.waits = <<1000, 2000>>
    /\ call.result = 2
    /\ now >= 3000


\* C28: the cache holds only successful responses: a call for a present key
\* returns the cached response without any request and stores nothing; a
\* call for an absent key issues a request, stores the response when the
\* SDK call or the RPC fallback succeeds, and stores nothing when both fail.
C28_CacheContract ==
    [][call'.op = "getAssetTransfersWithRetry"
        => LET k == call'.key
               answer == <<transfers[k]>>
           IN  IF responseCache[k] # NoResponse
               THEN /\ call'.requests = 0
                    /\ ~call'.threw
                    /\ call'.response = responseCache[k]
                    /\ responseCache' = responseCache
               ELSE /\ call'.requests > 0
                    /\ IF call'.threw
                       THEN responseCache' = responseCache
                       ELSE /\ call'.response = answer
                            /\ responseCache' =
                                   [responseCache EXCEPT ![k] = answer]
      ]_vars

\* the SDK call failed, the RPC fallback answered and its response, taken
\* after two transfers, was stored; nothing is stored for the other key
C28_Witness ==
    /\ call.op = "getAssetTransfersWithRetry"
    /\ call.key = "stakesOfWallet"
    /\ call.requests = 2
    /\ ~call.threw
    /\ call.response = <<2>>
    /\ responseCache["stakesOfWallet"] = <<2>>
    /\ responseCache["latestFromAddress"] = NoResponse

\* C29: every refresh of 'Latest Node Reward' queries the chain again, so a
\* refresh that completes shows the latest transfer mined before it.
C29_RefreshShowsLatest ==
    (call.op = "fetchLatestTx" /\ ~call.failed)
        => /\ call.requests > 0
           /\ call.latestTx = transfers[call.key]


\* stakedTokens of the result: per token the formatted stake and reward
StakedTokens ==
    [tk \in TokenIds |->
        [stakedAmount |-> formatEther(call.tasks[tk].staked),
         rewardAmount |-> formatEther(call.tasks[tk].reward)]]

\* C30: whatever the order in which the per-token reads complete, the
\* stakedAmount and earnedRewards returned by getTotalStakingInfo are the
\* sums of the per-token values of stakedTokens, and update() is given that
\* earned sum.
C30_SumsMatchTokens ==
    (call.op = "getTotalStakingInfo" /\ call.stage = "returned")
        => /\ Units(call.stakedAmount) =
                  SumOver(TokenIds, [tk \in TokenIds |->
                                        Units(StakedTokens[tk].stakedAmount)])
           /\ Units(call.earnedRewards) =
                  SumOver(TokenIds, [tk \in TokenIds |->
                                        Units(StakedTokens[tk].rewardAmount)])
           /\ call.updated # NoAmount
                  => /\ call.updated[1] = call.earnedRewards
                     /\ rewardHistory.lastAmount = parseEther(call.earnedRewards)

\* the reads of token 2 completed before those of token 1, both tokens
\* carry a stake and a reward, and update() was given the sum
C30_Witness ==
    /\ call.op = "getTotalStakingInfo"
    /\ call.stage = "returned"
    /\ call.order = <<2, 1>>
    /\ call.tasks[1].staked = 2 * Units(SampleAmount)
    /\ call.tasks[2].staked = Units(SampleAmount)
    /\ call.tasks[1].reward = Units(SampleAmount)
    /\ call.tasks[2].reward = Units(SampleAmount)
    /\ Units(call.stakedAmount) = 3 * Units(SampleAmount)
    /\ call.updated = <<formatEther(2 * Units(SampleAmount))>>

\* C31: between mount and unmount setInitialAmount() is called at most once:
\* a poll that completes with initialEarned = null in its closure, and so
\* calls setInitialAmount(), is the first poll to complete.
C31_BaselineSetOnce ==
    [][\A i \in DOMAIN polls :
          (Completes(i) /\ polls[i].initialEarned = NoAmount)
              => app.initialEarned = NoAmount
      ]_vars

\* C32: from construction or reset(), under update() calls and getStats()
\* calls made after the first update(), the deltas held in history sum to at
\* most lastAmount - initialAmount, and to exactly that while no entry has
\* been pruned since the session started.
C32_DeltasWithinSession ==
    call.op \in {"update", "getStats"}
        => LET gained == rewardHistory.lastAmount
                            - rewardHistory.initialAmount[1]
           IN  /\ rewardHistory.initialAmount # NoAmount
               /\ SumAmounts(history) <= gained
               /\ ~call.pruned => SumAmounts(history) = gained

\* a session started after time 0 holds its zero point and two deltas;
\* nothing has been pruned
C32_Witness ==
    /\ call.op = "update"
    /\ ~call.pruned
    /\ rewardHistory.startTime > 0
    /\ rewardHistory.initialAmount = <<0>>
    /\ Len(history) = 3
    /\ SumAmounts(history) = 2 * Units(SampleAmount)
    /\ rewardHistory.lastAmount = 2 * Units(SampleAmount)

\* the deltas of the session have been pruned and the counter stands above
\* the baseline
C32_WitnessPruned ==
    /\ call.op = "getStats"
    /\ call.pruned
    /\ SumAmounts(history) = 0
    /\ rewardHistory.lastAmount - rewardHistory.initialAmount[1]
          = 2 * Units(SampleAmount)

\* C33: after addReward() or getRewardsLastMinute() the tracker holds no
\* data point older than maxAgeMs, and the total returned counts none.
C33_NoStalePoints ==
    call.op \in {"addReward", "getRewardsLastMinute"}
        => /\ \A i \in DOMAIN rewardTracker.rewardHistory :
                  rewardTracker.rewardHistory[i].timestamp >= now - maxAgeMs
           /\ call.op = "getRewardsLastMinute"
                  => call.result.total =
                        SumRewards(SelectSeq(rewardTracker.rewardHistory,
                            LAMBDA p : p.timestamp >= now - maxAgeMs))

\* C34: getRewardDifference(c) returns c - p when c >= p and 0 when c < p,
\* p being the argument of the call before (0 before any call); the stored
\* last processed reward is c in both cases; the values returned so far sum
\* to the rises of the counter so far.
C34_DifferenceIsRise ==
    call.op = "getRewardDifference"
        => /\ call.difference = IF call.current >= call.previous
                                THEN call.current - call.previous
                                ELSE 0
           /\ rewardTracker.lastProcessedReward = call.current
           /\ call.returned = call.rises

\* third call of the sequence 1, 0, 2 units: the fall returned 0 and the two
\* rises returned 1 and 2 units
C34_Witness ==
    /\ call.op = "getRewardDifference"
    /\ call.calls = 3
    /\ call.previous = 0
    /\ call.current = 2 * Units(SampleAmount)
    /\ call.difference = 2 * Units(SampleAmount)
    /\ call.returned = 3 * Units(SampleAmount)

\* C35: getTokensOfOwner returns, in index order, exactly the ids of the
\* indexes whose lookup succeeded, whatever the order in which the lookups
\* settled, and the empty list when an address is invalid or balanceOf fails.
C35_TokensInIndexOrder ==
    (call.op = "getTokensOfOwner" /\ call.stage = "returned")
        => LET succeeded == {i \in DOMAIN call.lookups :
                                call.lookups[i].state = "resolved"}
           IN  /\ call.threw => call.result = << >>
               /\ Len(call.result) = Cardinality(succeeded)
               /\ \A i \in succeeded :
                     call.result[1 + Cardinality({j \in succeeded : j < i})]
                         = tokenOfOwnerByIndex(i)

\* three lookups settled in the order 2, 0, 1, the one of index 1 failed:
\* the ids of indexes 0 and 2 are returned in that order
C35_Witness ==
    /\ call.op = "getTokensOfOwner"
    /\ call.stage = "returned"
    /\ call.order = <<2, 0, 1>>
    /\ call.lookups[1].state = "null"
    /\ call.result = <<tokenOfOwnerByIndex(0), tokenOfOwnerByIndex(2)>>

\* C36: once a checkStaking run of the console script has succeeded,
\* initialEarned holds what the first successful run read, whatever the
\* later runs read: it is assigned by that run and by no later one.
C36_BaselineAssignedOnce ==
    (call.op = "checkStaking" /\ call.successes >= 1)
        => call.initialEarned = call.firstEarned[1]

\* C37: while the RewardHistory is not initialised its history is empty, its
\* baseline is absent and lastAmount is 0.
C37_UninitializedIsEmpty ==
    ~rewardHistory.initialized
        => /\ rewardHistory.history = << >>
           /\ rewardHistory.initialAmount = NoAmount
           /\ rewardHistory.lastAmount = 0

\* reset(), called after time 0, has left the history uninitialised
C37_Witness ==
    /\ call.op = "reset"
    /\ run = NewRun
    /\ now > 0
    /\ ~rewardHistory.initialized
    /\ rewardHistory.startTime = now
    /\ rewardHistory.history = << >>

====
